---- MODULE Spec2Model ----
(***************************************************************************)
(* Model of the PCF85263 RTC support library (src/src/PCF85263.cpp,        *)
(* src/include/PCF85263.h): the DateTime / TimeSpan calendar engine and    *)
(* its text formatter.  Integers keep the widths of the C++ types: uint8_t *)
(* fields, uint16_t day counts, uint32_t second counts, int32_t spans.     *)
(***************************************************************************)
EXTENDS Integers, Sequences, FiniteSets

VARIABLES
    pc,      \* the operation that produced the current state
    made,    \* the constructor that built a
    a,       \* DateTime: the receiver (*this) of the member functions
    b,       \* DateTime: the right operand / the DateTime an operation returned
    flash,   \* the byte program memory holds behind the daysInMonth table
    ok,      \* bool returned by isValid()
    t,       \* uint32_t: the argument of DateTime(uint32_t)
    u,       \* uint32_t returned by unixtime()
    dow,     \* uint8_t returned by dayOfTheWeek()
    cmp,     \* results of the six comparison operators on (a, b)
    span,    \* TimeSpan::_seconds of the TimeSpan in play
    args,    \* the arguments the last TimeSpan was constructed from
    parts,   \* days(), hours(), minutes(), seconds() of span
    fmt,     \* the format string the caller put in the buffer, or
             \* <<opt>> for the timestampOpt given to timestamp()
    buffer,  \* the buffer after toString or timestamp (without its
             \* terminating NUL)
    iso8601dateTime,  \* the string given to DateTime(const char *)
    date,    \* the date string given to DateTime(date, time)
    time,    \* the time string given to DateTime(date, time)
    yearArg, \* the year given to DateTime(year, month, day, hour, min, sec)
    scan,    \* the loop of the last toString: the value of i it ended with
             \* and the highest position of the buffer it read
    regs,    \* the registers of the PCF85263 on the I2C bus
    called,  \* the most recent of start() and stop()
    val,     \* uint8_t: the argument of bcd2bin and bin2bcd
    codec    \* what bcd2bin(val) and bin2bcd(val) returned, and what
             \* bcd2bin and bin2bcd returned for these results

\* the strings and the year given to the constructors with the scan of
\* toString, and the chip with the BCD codec
textVars == <<iso8601dateTime, date, time, yearArg, scan>>
chipVars == <<regs, called, val, codec>>

vars == <<pc, made, a, b, flash, ok, t, u, dow, cmp, span, args, parts,
          fmt, buffer, textVars, chipVars>>

----------------------------------------------------------------------------
(* Fixed-width integer arithmetic of the C++ types.  A 32-bit quantity is   *)
(* kept as two 16-bit limbs <<hi, lo>> (value hi * 65536 + lo), so that    *)
(* uint32_t wrap-around is computed exactly; an exact (unbounded) integer  *)
(* is the same pair with hi ranging over all integers.                     *)

U8(x)  == x % 256
U16(x) == x % 65536

\* the exact integer n as limbs
Big(n) == <<n \div 65536, n % 65536>>
BigAdd(x, y) == LET lo == x[2] + y[2]
                IN  <<x[1] + y[1] + (lo \div 65536), lo % 65536>>
BigSub(x, y) == LET lo == x[2] - y[2]
                IN  <<x[1] - y[1] + (lo \div 65536), lo % 65536>>
\* x * k + c
BigMulAdd(x, k, c) == LET lo == x[2] * k + c
                      IN  <<x[1] * k + (lo \div 65536), lo % 65536>>
BigLt(x, y) == x[1] < y[1] \/ (x[1] = y[1] /\ x[2] < y[2])
BigLe(x, y) == x[1] < y[1] \/ (x[1] = y[1] /\ x[2] <= y[2])

\* reduction modulo 2^32: the value a uint32_t holds
U32(x) == <<x[1] % 65536, x[2]>>
\* conversion of a 32-bit pattern to int32_t (two's complement)
I32(x) == LET h == x[1] % 65536
          IN  (IF h >= 32768 THEN h - 65536 ELSE h) * 65536 + x[2]
\* uint32_t x / k and x % k for a small k:  <<quotient, remainder>>
U32DivMod(x, k) == LET l == (x[1] % k) * 65536 + x[2]
                   IN  <<(x[1] \div k) * 65536 + (l \div k), l % k>>

\* C++ integer division and remainder truncate toward zero
\* (for y > 0)
CDiv(x, y) == IF x < 0 /\ x % y # 0 THEN (x \div y) + 1 ELSE x \div y
CMod(x, y) == x - y * CDiv(x, y)
\* conversion to int16_t and to int8_t
I16(x) == ((x + 32768) % 65536) - 32768
I8(x)  == ((x + 128) % 256) - 128

SECONDS_FROM_1970_TO_2000 == <<14445, 17280>>   \* 946684800

----------------------------------------------------------------------------
(* Calendar conversion.                                                    *)

daysInMonth == <<31, 28, 31, 30, 31, 30, 31, 31, 30, 31, 30>>

\* pgm_read_byte(daysInMonth + k): the table has 11 entries; a read behind
\* its end returns whatever byte the build placed there.
pgm_read_byte(k) == IF k < Len(daysInMonth) THEN daysInMonth[k + 1] ELSE flash

MonthDaysBefore_thirtyDays(i, m, days) ==
    IF i < m THEN U16(days + 30 * (m - i)) ELSE days

RECURSIVE MonthDaysBefore(_, _, _)
\* the loop  for (uint8_t i = 1; i < m; ++i) days += pgm_read_byte(...)
MonthDaysBefore(i, m, days) ==
    IF i < m THEN MonthDaysBefore(i + 1, m, U16(days + pgm_read_byte(i - 1)))
    ELSE days

date2days_noLeapDay(y, m, d) ==
    LET y2   == IF y >= 2000 THEN y - 2000 ELSE y
        days == MonthDaysBefore(1, m, d)
    IN  U16(days + 365 * y2 + ((y2 + 3) \div 4) - 1)

date2days(y, m, d) ==
    LET y2    == IF y >= 2000 THEN U16(y - 2000) ELSE y
        days  == MonthDaysBefore(1, m, d)
        days2 == IF m > 2 /\ y2 % 4 = 0 THEN U16(days + 1) ELSE days
    IN  U16(days2 + 365 * y2 + ((y2 + 3) \div 4) - 1)

time2ulong_shortDays(days, h, m, s) ==
    U32(BigMulAdd(Big((U16(days * 24) + h) * 60 + m), 60, s))

time2ulong(days, h, m, s) ==
    U32(BigMulAdd(Big((days * 24 + h) * 60 + m), 60, s))

RECURSIVE YearLoop(_, _)
\* for (yOff = 0;; ++yOff) { leap = yOff % 4 == 0; if (days < 365U + leap)
\* break; days -= 365 + leap; }   returns <<yOff, leap, days>>
YearLoop(yOff, days) ==
    LET leap == IF yOff % 4 = 0 THEN 1 ELSE 0
    IN  IF days < 365 + leap THEN <<yOff, leap, days>>
        ELSE YearLoop(U8(yOff + 1), U16(days - (365 + leap)))

RECURSIVE MonthLoop(_, _, _)
\* for (m = 1; m < 12; ++m) { ... if (days < daysPerMonth) break;
\* days -= daysPerMonth; }        returns <<m, days>>
MonthLoop(m, leap, days) ==
    IF m < 12
    THEN LET dpm0 == pgm_read_byte(m - 1)
             dpm  == IF leap = 1 /\ m = 2 THEN U8(dpm0 + 1) ELSE dpm0
         IN  IF days < dpm THEN <<m, days>>
             ELSE MonthLoop(m + 1, leap, U16(days - dpm))
    ELSE <<m, days>>

DateTimeUnix_noEpoch(t0) ==
    LET sm  == U32DivMod(t0, 60)
        ss_ == sm[2]
        t2  == sm[1]
        mm_ == t2 % 60
        t3  == t2 \div 60
        hh_ == t3 % 24
        yl  == YearLoop(0, U16(t3 \div 24))
        ml  == MonthLoop(1, yl[2], yl[3])
    IN  [yOff |-> yl[1], m |-> ml[1], d |-> U8(ml[2] + 1),
         hh |-> hh_, mm |-> mm_, ss |-> ss_]

\* DateTime::DateTime(uint32_t t)
DateTimeUnix(t0) ==
    LET t1  == U32(BigSub(t0, SECONDS_FROM_1970_TO_2000))
        sm  == U32DivMod(t1, 60)
        ss_ == sm[2]
        t2  == sm[1]
        mm_ == t2 % 60
        t3  == t2 \div 60
        hh_ == t3 % 24
        yl  == YearLoop(0, U16(t3 \div 24))
        ml  == MonthLoop(1, yl[2], yl[3])
    IN  [yOff |-> yl[1], m |-> ml[1], d |-> U8(ml[2] + 1),
         hh |-> hh_, mm |-> mm_, ss |-> ss_]

\* DateTime::DateTime(uint16_t year, uint8_t month, ..., uint8_t sec)
DateTimeYMD(year, month, day, hour, min, sec) ==
    LET y2 == IF year >= 2000 THEN U16(year - 2000) ELSE year
    IN  [yOff |-> U8(y2), m |-> month, d |-> day,
         hh |-> hour, mm |-> min, ss |-> sec]

year(dt) == 2000 + dt.yOff

unixtime(dt) ==
    U32(BigAdd(time2ulong(date2days(dt.yOff, dt.m, dt.d), dt.hh, dt.mm, dt.ss),
               SECONDS_FROM_1970_TO_2000))

secondstime(dt) == time2ulong(date2days(dt.yOff, dt.m, dt.d), dt.hh, dt.mm, dt.ss)

isValid_noYearCheck(dt) ==
    LET other == DateTimeUnix(unixtime(dt))
    IN  dt.yOff = other.yOff /\ dt.m = other.m /\ dt.d = other.d
        /\ dt.hh = other.hh /\ dt.mm = other.mm /\ dt.ss = other.ss

isValid(dt) ==
    IF dt.yOff >= 100 THEN FALSE
    ELSE LET other == DateTimeUnix(unixtime(dt))
         IN  dt.yOff = other.yOff /\ dt.m = other.m /\ dt.d = other.d
             /\ dt.hh = other.hh /\ dt.mm = other.mm /\ dt.ss = other.ss

\* bool DateTime::operator<(const DateTime &right) with the day not compared
Less_noDay(l, r) ==
    \/ l.yOff + 2000 < year(r)
    \/ /\ l.yOff + 2000 = year(r)
       /\ \/ l.m < r.m
          \/ /\ l.m = r.m
             /\ \/ l.hh < r.hh
                \/ /\ l.hh = r.hh
                   /\ \/ l.mm < r.mm
                      \/ (l.mm = r.mm /\ l.ss < r.ss)

\* bool DateTime::operator<(const DateTime &right)
Less(l, r) ==
    \/ l.yOff + 2000 < year(r)
    \/ /\ l.yOff + 2000 = year(r)
       /\ \/ l.m < r.m
          \/ /\ l.m = r.m
             /\ \/ l.d < r.d
                \/ /\ l.d = r.d
                   /\ \/ l.hh < r.hh
                      \/ /\ l.hh = r.hh
                         /\ \/ l.mm < r.mm
                            \/ (l.mm = r.mm /\ l.ss < r.ss)

\* bool DateTime::operator==(const DateTime &right)
Equal(l, r) ==
    /\ year(r) = l.yOff + 2000 /\ r.m = l.m /\ r.d = l.d
    /\ r.hh = l.hh /\ r.mm = l.mm /\ r.ss = l.ss

Greater(l, r)   == Less(r, l)          \* operator>
LessEq(l, r)    == ~Greater(l, r)      \* operator<=
GreaterEq(l, r) == ~Less(l, r)         \* operator>=
NotEqual(l, r)  == ~Equal(l, r)        \* operator!=

DateTimePlus_subtracting(dt, sp) ==
    DateTimeUnix(U32(BigSub(unixtime(dt), Big(sp))))

\* DateTime DateTime::operator+(const TimeSpan &span): uint32_t + int32_t
DateTimePlus(dt, sp) == DateTimeUnix(U32(BigAdd(unixtime(dt), Big(sp))))

\* DateTime DateTime::operator-(const TimeSpan &span)
DateTimeMinus(dt, sp) == DateTimeUnix(U32(BigSub(unixtime(dt), Big(sp))))

\* TimeSpan DateTime::operator-(const DateTime &right): the uint32_t
\* difference converted to the int32_t the TimeSpan stores
DateTimeDiff(l, r) == I32(U32(BigSub(unixtime(l), unixtime(r))))

\* TimeSpan::TimeSpan(int32_t seconds)
TimeSpanSeconds(seconds) == seconds

SpanSum_hoursAsMinutes(ds, h, m, s) ==
    BigMulAdd(BigMulAdd(Big(ds), 1440, 0), 60, h * 60 + m * 60 + s)

\* days * 86400 + hours * 3600 + minutes * 60 + seconds as an exact integer
SpanSum(ds, h, m, s) ==
    BigMulAdd(BigMulAdd(Big(ds), 1440, 0), 60, h * 3600 + m * 60 + s)

FitsInt32(x) == x[1] \in -32768..32767

\* TimeSpan::TimeSpan(int16_t days, int8_t hours, int8_t minutes, int8_t
\* seconds): the values _seconds may hold.  The sum is formed in int32_t; a
\* sum outside int32_t is a signed overflow, whose result the language
\* leaves open: the wrapped value or either end of the range.
TimeSpanParts(ds, h, m, s) ==
    LET sum == SpanSum(ds, h, m, s)
    IN  IF FitsInt32(sum) THEN {I32(sum)}
        ELSE {I32(sum), 2147483647, -2147483647 - 1}

days(sp)    == I16(CDiv(sp, 86400))
hours_total(sp) == I8(CDiv(sp, 3600))
hours(sp)   == I8(CMod(CDiv(sp, 3600), 24))
minutes(sp) == I8(CMod(CDiv(sp, 60), 60))
seconds(sp) == I8(CMod(sp, 60))
totalseconds(sp) == sp

dayOfTheWeek_noOffset(dt) == date2days(dt.yOff, dt.m, dt.d) % 7

dayOfTheWeek(dt) == (date2days(dt.yOff, dt.m, dt.d) + 6) % 7


----------------------------------------------------------------------------
(* BCD codec of RTC_I2C.                                                   *)

\* static uint8_t bcd2bin(uint8_t val) { return val - 6 * (val >> 4); }
bcd2bin(v) == U8(v - 6 * (v \div 16))

bin2bcd_sixPerSixteen(v) == U8(v + 6 * (v \div 16))
\* static uint8_t bin2bcd(uint8_t val) { return val + 6 * (val / 10); }
bin2bcd(v) == U8(v + 6 * (v \div 10))

\* register addresses of the PCF85263
PCF85263_SECOND  == 1
PCF85263_MINUTE  == 2
PCF85263_HOUR    == 3
PCF85263_DAY     == 4
PCF85263_WEEKDAY == 5
PCF85263_MONTH   == 6
PCF85263_YEAR    == 7
PCF85263_ALM1_SECONDS == 8
PCF85263_ALM1_MINUTE  == 9
PCF85263_ALM1_HOUR    == 10
PCF85263_ALM1_DAY     == 11
PCF85263_ALM1_MONTH   == 12
PCF85263_STOPEN  == 46
Registers == (PCF85263_SECOND..PCF85263_YEAR)
             \cup (PCF85263_ALM1_SECONDS..PCF85263_ALM1_MONTH)
             \cup {PCF85263_STOPEN}
\* the registers before the chip is addressed
NoRegs == [r \in Registers |-> 0]

\* x & y for non-negative x and y
RECURSIVE BitAnd(_, _)
BitAnd(x, y) ==
    IF x = 0 \/ y = 0 THEN 0
    ELSE (x % 2) * (y % 2) + 2 * BitAnd(x \div 2, y \div 2)

----------------------------------------------------------------------------
(* The chip: its registers as the I2C device holds them.  rg is the        *)
(* register file before a call; an operation yields the one after it.      *)

\* uint8_t RTC_I2C::read_register(uint8_t reg)
read_register(rg, reg) == rg[reg]
\* void RTC_I2C::write_register(uint8_t reg, uint8_t val)
write_register(rg, reg, v) == [rg EXCEPT ![reg] = v]

\* void PCF85263::start(void)
start(rg) ==
    LET stopen == read_register(rg, PCF85263_STOPEN)
    IN  IF BitAnd(stopen, 1) # 0
        THEN write_register(rg, PCF85263_STOPEN, BitAnd(stopen, 254))
        ELSE rg

\* void PCF85263::stop(void)
stop(rg) ==
    LET stopen == read_register(rg, PCF85263_STOPEN)
    IN  IF BitAnd(stopen, 1) = 0
        THEN write_register(rg, PCF85263_STOPEN, BitAnd(stopen, 1))
        ELSE rg

\* void PCF85263::adjust(const DateTime &dt): the seven bytes behind the
\* register address go to the registers from PCF85263_SECOND on
adjust(rg, dt) ==
    LET data == <<bin2bcd(dt.ss), bin2bcd(dt.mm), bin2bcd(dt.hh),
                  bin2bcd(dt.d), bin2bcd(0), bin2bcd(dt.m),
                  bin2bcd(U8(year(dt) - 2000))>>
    IN  [r \in DOMAIN rg |->
            IF r \in PCF85263_SECOND..(PCF85263_SECOND + 6)
            THEN data[r - PCF85263_SECOND + 1] ELSE rg[r]]

now_dayMaskedAsMonth(rg) ==
    LET buf == [k \in 0..6 |-> rg[PCF85263_SECOND + k]]
    IN  DateTimeYMD(bcd2bin(buf[6]) + 2000, bcd2bin(BitAnd(buf[5], 31)),
                    bcd2bin(BitAnd(buf[3], 31)), bcd2bin(BitAnd(buf[2], 63)),
                    bcd2bin(BitAnd(buf[1], 127)), bcd2bin(BitAnd(buf[0], 127)))
\* DateTime PCF85263::now(): seven registers are read from PCF85263_SECOND on
now(rg) ==
    LET buf == [k \in 0..6 |-> rg[PCF85263_SECOND + k]]
    IN  DateTimeYMD(bcd2bin(buf[6]) + 2000, bcd2bin(BitAnd(buf[5], 31)),
                    bcd2bin(BitAnd(buf[3], 63)), bcd2bin(BitAnd(buf[2], 63)),
                    bcd2bin(BitAnd(buf[1], 127)), bcd2bin(BitAnd(buf[0], 127)))

setAlarm_clockRegisters(rg, dt) ==
    LET data == <<bin2bcd(dt.ss), bin2bcd(dt.mm), bin2bcd(dt.hh),
                  bin2bcd(dt.d), bin2bcd(dt.m)>>
    IN  [r \in DOMAIN rg |->
            IF r \in PCF85263_SECOND..(PCF85263_SECOND + 4)
            THEN data[r - PCF85263_SECOND + 1] ELSE rg[r]]

\* void PCF85263::setAlarm(const DateTime &dt): the register address
\* PCF85263_ALM1_SECONDS and five bytes are written
setAlarm(rg, dt) ==
    LET data == <<bin2bcd(dt.ss), bin2bcd(dt.mm), bin2bcd(dt.hh),
                  bin2bcd(dt.d), bin2bcd(dt.m)>>
    IN  [r \in DOMAIN rg |->
            IF r \in PCF85263_ALM1_SECONDS..(PCF85263_ALM1_SECONDS + 4)
            THEN data[r - PCF85263_ALM1_SECONDS + 1] ELSE rg[r]]

\* DateTime PCF85263::getAlarm(): five registers are read from
\* PCF85263_ALM1_SECONDS on
getAlarm(rg) ==
    LET buf == [k \in 0..4 |-> rg[PCF85263_ALM1_SECONDS + k]]
    IN  DateTimeYMD(0 + 2000, bcd2bin(BitAnd(buf[4], 31)),
                    bcd2bin(BitAnd(buf[3], 63)), bcd2bin(BitAnd(buf[2], 63)),
                    bcd2bin(BitAnd(buf[1], 127)), bcd2bin(BitAnd(buf[0], 127)))

----------------------------------------------------------------------------
(* Text formatter.  A char is a one-character string; a buffer is the      *)
(* sequence of the chars before its terminating NUL.                       *)

NUL == "NUL"

\* the chars '0' + k for k = 0..25
CharsFromZero == <<"0", "1", "2", "3", "4", "5", "6", "7", "8", "9", ":", ";",
                   "<", "=", ">", "?", "@", "A", "B", "C", "D", "E", "F", "G",
                   "H", "I">>
CharFromZero(k) == CharsFromZero[k + 1]

day_names   == <<"S", "u", "n", "M", "o", "n", "T", "u", "e", "W", "e", "d",
                 "T", "h", "u", "F", "r", "i", "S", "a", "t">>
month_names == <<"J", "a", "n", "F", "e", "b", "M", "a", "r", "A", "p", "r",
                 "M", "a", "y", "J", "u", "n", "J", "u", "l", "A", "u", "g",
                 "S", "e", "p", "O", "c", "t", "N", "o", "v", "D", "e", "c">>

\* the chars with the codes 32..126, in the order of their codes ("GRAVE"
\* stands for the grave accent, code 96)
AsciiPrintable ==
    <<" ", "!", "\"", "#", "$", "%", "&", "'", "(", ")", "*", "+",
      ",", "-", ".", "/", "0", "1", "2", "3", "4", "5", "6", "7",
      "8", "9", ":", ";", "<", "=", ">", "?", "@", "A", "B", "C",
      "D", "E", "F", "G", "H", "I", "J", "K", "L", "M", "N", "O",
      "P", "Q", "R", "S", "T", "U", "V", "W", "X", "Y", "Z", "[",
      "\\", "]", "^", "_", "GRAVE", "a", "b", "c", "d", "e", "f", "g",
      "h", "i", "j", "k", "l", "m", "n", "o", "p", "q", "r", "s",
      "t", "u", "v", "w", "x", "y", "z", "{", "|", "}", "~">>
\* the code of a char, as the arithmetic on chars uses it
Ord(ch) ==
    IF ch = NUL THEN 0
    ELSE 31 + CHOOSE k \in 1..Len(AsciiPrintable) : AsciiPrintable[k] = ch

\* strlen(buf)
strlen(buf) ==
    IF \E k \in 1..Len(buf) : buf[k] = NUL
    THEN (CHOOSE k \in 1..Len(buf) :
            buf[k] = NUL /\ \A j \in 1..(k - 1) : buf[j] # NUL) - 1
    ELSE Len(buf)

\* buf[i] (i counted from 0); buf[strlen] is the terminating NUL, and junk
\* stands for what lies behind it
At(buf, i, junk) ==
    IF i < Len(buf) THEN buf[i + 1] ELSE IF i = Len(buf) THEN NUL ELSE junk

\* strstr(buf, "xy") != nullptr
Contains(buf, x, y) ==
    \E k \in 1..(strlen(buf) - 1) : buf[k] = x /\ buf[k + 1] = y

Put2(buf, i, c1, c2) == [buf EXCEPT ![i + 1] = c1, ![i + 2] = c2]
Put3(buf, i, c1, c2, c3) ==
    [buf EXCEPT ![i + 1] = c1, ![i + 2] = c2, ![i + 3] = c3]

TwoDigits_unitsFirst(buf, i, v) ==
    Put2(buf, i, CharFromZero(v % 10), CharFromZero(v \div 10))

\* buffer[i] = '0' + v / 10; buffer[i + 1] = '0' + v % 10;
TwoDigits(buf, i, v) ==
    Put2(buf, i, CharFromZero(v \div 10), CharFromZero(v % 10))

\* month_names[3 * (m - 1) + k]: a month outside 1..12 reads outside the table
MonthNameChar(m, k, junk) ==
    IF m \in 1..12 THEN month_names[3 * (m - 1) + k + 1] ELSE junk

\* uint8_t DateTime::twelveHour() const
twelveHour(dt) ==
    IF dt.hh = 0 \/ dt.hh = 12 THEN 12
    ELSE IF dt.hh > 12 THEN dt.hh - 12
    ELSE dt.hh
\* uint8_t isPM() const { return hh >= 12; }
isPM(dt) == dt.hh >= 12

hourReformatted_noonAsZero(dt, apTag) ==
    IF ~apTag THEN 0
    ELSE IF dt.hh = 0 THEN 12
    ELSE IF dt.hh < 12 THEN dt.hh
    ELSE dt.hh - 12
\* hourReformatted and isPM, as toString computes them when apTag is set
hourReformatted(dt, apTag) ==
    IF ~apTag THEN 0
    ELSE IF dt.hh = 0 THEN 12
    ELSE IF dt.hh = 12 THEN 12
    ELSE IF dt.hh < 12 THEN dt.hh
    ELSE dt.hh - 12
isPM_toString(dt, apTag) ==
    IF ~apTag THEN FALSE
    ELSE IF dt.hh = 0 THEN FALSE
    ELSE IF dt.hh = 12 THEN TRUE
    ELSE IF dt.hh < 12 THEN FALSE
    ELSE TRUE

\* The if statements of the body of the for loop of toString, at position
\* i, in the order of the source; each takes the buffer the one before left.
StepHour(buf, i, dt, apTag, junk) ==
    IF At(buf, i, junk) = "h" /\ At(buf, i + 1, junk) = "h"
    THEN (IF ~apTag THEN TwoDigits(buf, i, dt.hh)
          ELSE TwoDigits(buf, i, hourReformatted(dt, apTag)))
    ELSE buf
StepMinute(buf, i, dt, junk) ==
    IF At(buf, i, junk) = "m" /\ At(buf, i + 1, junk) = "m"
    THEN TwoDigits(buf, i, dt.mm) ELSE buf
StepSecond(buf, i, dt, junk) ==
    IF At(buf, i, junk) = "s" /\ At(buf, i + 1, junk) = "s"
    THEN TwoDigits(buf, i, dt.ss) ELSE buf
StepDay_shortFirst(buf, i, dt, junk) ==
    IF At(buf, i, junk) = "D" /\ At(buf, i + 1, junk) = "D"
    THEN TwoDigits(buf, i, dt.d)
    ELSE buf
StepDay(buf, i, dt, junk) ==
    IF At(buf, i, junk) = "D" /\ At(buf, i + 1, junk) = "D"
       /\ At(buf, i + 2, junk) = "D"
    THEN LET p == 3 * dayOfTheWeek(dt)
         IN  Put3(buf, i, day_names[p + 1], day_names[p + 2], day_names[p + 3])
    ELSE IF At(buf, i, junk) = "D" /\ At(buf, i + 1, junk) = "D"
    THEN TwoDigits(buf, i, dt.d) ELSE buf
StepMonth(buf, i, dt, junk) ==
    IF At(buf, i, junk) = "M" /\ At(buf, i + 1, junk) = "M"
       /\ At(buf, i + 2, junk) = "M"
    THEN Put3(buf, i, MonthNameChar(dt.m, 0, junk),
              MonthNameChar(dt.m, 1, junk), MonthNameChar(dt.m, 2, junk))
    ELSE IF At(buf, i, junk) = "M" /\ At(buf, i + 1, junk) = "M"
    THEN TwoDigits(buf, i, dt.m) ELSE buf
StepYear(buf, i, dt, junk) ==
    IF At(buf, i, junk) = "Y" /\ At(buf, i + 1, junk) = "Y"
       /\ At(buf, i + 2, junk) = "Y" /\ At(buf, i + 3, junk) = "Y"
    THEN [buf EXCEPT ![i + 1] = "2", ![i + 2] = "0",
                     ![i + 3] = CharFromZero((dt.yOff \div 10) % 10),
                     ![i + 4] = CharFromZero(dt.yOff % 10)]
    ELSE IF At(buf, i, junk) = "Y" /\ At(buf, i + 1, junk) = "Y"
    THEN Put2(buf, i, CharFromZero((dt.yOff \div 10) % 10),
              CharFromZero(dt.yOff % 10))
    ELSE buf
StepMeridiem(buf, i, dt, apTag, junk) ==
    IF At(buf, i, junk) = "A" /\ At(buf, i + 1, junk) = "P"
    THEN (IF isPM_toString(dt, apTag) THEN Put2(buf, i, "P", "M")
          ELSE Put2(buf, i, "A", "M"))
    ELSE IF At(buf, i, junk) = "a" /\ At(buf, i + 1, junk) = "p"
    THEN (IF isPM_toString(dt, apTag) THEN Put2(buf, i, "p", "m")
          ELSE Put2(buf, i, "a", "m"))
    ELSE buf

\* one pass of the body of the for loop of toString, at position i
ToStringStep(buf, i, dt, apTag, junk) ==
    CHOOSE r \in
      {StepMeridiem(b6, i, dt, apTag, junk) :
        b6 \in {StepYear(b5, i, dt, junk) :
         b5 \in {StepMonth(b4, i, dt, junk) :
          b4 \in {StepDay(b3, i, dt, junk) :
           b3 \in {StepSecond(b2, i, dt, junk) :
            b2 \in {StepMinute(b1, i, dt, junk) :
             b1 \in {StepHour(buf, i, dt, apTag, junk)}}}}}}} : TRUE

\* positions behind the terminating NUL of the buffer that toString is
\* followed over
MemBehind == 3

\* the highest position the tests of the loop body read for index i: the
\* && of a test reads the next position only if the ones before matched
HighestRead(buf, i, junk) ==
    LET c0 == At(buf, i, junk)
        c1 == At(buf, i + 1, junk)
        c2 == At(buf, i + 2, junk)
    IN  IF c0 = "Y" /\ c1 = "Y" /\ c2 = "Y" THEN i + 3
        ELSE IF c0 \in {"D", "M", "Y"} /\ c1 = c0 THEN i + 2
        ELSE IF c0 \in {"h", "m", "s", "D", "M", "Y", "A", "a"} THEN i + 1
        ELSE i

Max(x, y) == IF x >= y THEN x ELSE y

RECURSIVE ToStringLoop(_, _, _, _, _, _)
\* for (size_t i = 0; i < strlen(buffer) - 1; i++) { ... }, size_t being
\* 16 bits wide; the loop is followed as far as MemBehind positions behind
\* the terminating NUL of the buffer given
ToStringLoop(buf, i, dt, apTag, junk, top) ==
    IF i < (strlen(buf) - 1) % 65536 /\ i <= Len(buf) + MemBehind
    THEN CHOOSE r \in {ToStringLoop(nb, i + 1, dt, apTag, junk,
                                    Max(top, HighestRead(buf, i, junk))) :
                         nb \in {ToStringStep(buf, i, dt, apTag, junk)}} : TRUE
    ELSE [buffer |-> buf, i |-> i, top |-> top]

\* toString with the account of its loop
toStringScan(dt, buf, junk) ==
    LET apTag == Contains(buf, "a", "p") \/ Contains(buf, "A", "P")
    IN  ToStringLoop(buf, 0, dt, apTag, junk, 0)

\* char *DateTime::toString(char *buffer) const
toString(dt, buf, junk) == toStringScan(dt, buf, junk).buffer

conv2d_noTens(buf, i, junk) == U8(Ord(At(buf, i + 1, junk)) - Ord("0"))

\* static uint8_t conv2d(const char *p), p pointing at buf[i]
conv2d(buf, i, junk) ==
    LET c0 == At(buf, i, junk)
        c1 == At(buf, i + 1, junk)
        v  == IF Ord("0") <= Ord(c0) /\ Ord(c0) <= Ord("9")
              THEN Ord(c0) - Ord("0") ELSE 0
    IN  U8(10 * v + Ord(c1) - Ord("0"))

\* the switch on date[0] of DateTime(date, time); without a matching case m
\* keeps the indeterminate value mOld
MonthOfName_julyFirst(dateS, mOld) ==
    LET c0 == At(dateS, 0, NUL)
    IN  IF c0 = "J" THEN (IF At(dateS, 1, NUL) = "a" THEN 1 ELSE 7)
        ELSE IF c0 = "F" THEN 2
        ELSE IF c0 = "A" THEN (IF At(dateS, 2, NUL) = "r" THEN 4 ELSE 8)
        ELSE IF c0 = "M" THEN (IF At(dateS, 2, NUL) = "r" THEN 3 ELSE 5)
        ELSE IF c0 = "S" THEN 9
        ELSE IF c0 = "O" THEN 10
        ELSE IF c0 = "N" THEN 11
        ELSE IF c0 = "D" THEN 12
        ELSE mOld
MonthOfName(dateS, mOld) ==
    LET c0 == At(dateS, 0, NUL)
        c1 == At(dateS, 1, NUL)
        c2 == At(dateS, 2, NUL)
    IN  IF c0 = "J" THEN (IF c1 = "a" THEN 1 ELSE IF c2 = "n" THEN 6 ELSE 7)
        ELSE IF c0 = "F" THEN 2
        ELSE IF c0 = "A" THEN (IF c2 = "r" THEN 4 ELSE 8)
        ELSE IF c0 = "M" THEN (IF c2 = "r" THEN 3 ELSE 5)
        ELSE IF c0 = "S" THEN 9
        ELSE IF c0 = "O" THEN 10
        ELSE IF c0 = "N" THEN 11
        ELSE IF c0 = "D" THEN 12
        ELSE mOld
\* DateTime::DateTime(const char *date, const char *time)
DateTimeDateTime(dateS, timeS, mOld) ==
    [yOff |-> conv2d(dateS, 9, NUL),
     m    |-> MonthOfName(dateS, mOld),
     d    |-> conv2d(dateS, 4, NUL),
     hh   |-> conv2d(timeS, 0, NUL),
     mm   |-> conv2d(timeS, 3, NUL),
     ss   |-> conv2d(timeS, 6, NUL)]

\* char ref[] = "2000-01-01T00:00:00";
IsoRef == <<"2", "0", "0", "0", "-", "0", "1", "-", "0", "1", "T", "0", "0", ":", "0", "0", ":", "0", "0">>
DateTimeISO_zeroFilled(iso) ==
    LET ref == [k \in 1..Len(IsoRef) |-> IF k <= Len(iso) THEN iso[k] ELSE "0"]
    IN  [yOff |-> conv2d(ref, 2, NUL), m |-> conv2d(ref, 5, NUL),
         d |-> conv2d(ref, 8, NUL), hh |-> conv2d(ref, 11, NUL),
         mm |-> conv2d(ref, 14, NUL), ss |-> conv2d(ref, 17, NUL)]

\* DateTime::DateTime(const char *iso8601dateTime)
DateTimeISO(iso) ==
    LET n   == IF strlen(IsoRef) < strlen(iso) THEN strlen(IsoRef)
               ELSE strlen(iso)
        ref == [k \in 1..Len(IsoRef) |-> IF k <= n THEN iso[k] ELSE IsoRef[k]]
    IN  [yOff |-> conv2d(ref, 2, NUL), m |-> conv2d(ref, 5, NUL),
         d |-> conv2d(ref, 8, NUL), hh |-> conv2d(ref, 11, NUL),
         mm |-> conv2d(ref, 14, NUL), ss |-> conv2d(ref, 17, NUL)]

\* the decimal digits of n >= 0, as sprintf("%u") and ("%d") print them
RECURSIVE DecimalDigits(_)
DecimalDigits(n) ==
    IF n < 10 THEN <<CharFromZero(n)>>
    ELSE Append(DecimalDigits(n \div 10), CharFromZero(n % 10))
\* sprintf("%02d", n) for n >= 0
Pad2(n) == IF n < 10 THEN <<"0", CharFromZero(n)>> ELSE DecimalDigits(n)
\* enum timestampOpt
timestampOpt == {"TIMESTAMP_FULL", "TIMESTAMP_TIME", "TIMESTAMP_DATE"}
\* String DateTime::timestamp(timestampOpt opt) const
timestamp(dt, opt) ==
    LET tm == Pad2(dt.hh) \o <<":">> \o Pad2(dt.mm) \o <<":">> \o Pad2(dt.ss)
        dm == DecimalDigits(2000 + dt.yOff) \o <<"-">> \o Pad2(dt.m)
              \o <<"-">> \o Pad2(dt.d)
    IN  IF opt = "TIMESTAMP_TIME" THEN tm
        ELSE IF opt = "TIMESTAMP_DATE" THEN dm
        ELSE dm \o <<"T">> \o tm

----------------------------------------------------------------------------
(* Bounds of the inputs.                                                   *)

MaxYear     == 101   \* year arguments 0..MaxYear and 2000..2000+MaxYear
MaxMonth    == 13    \* month arguments 0..MaxMonth
MaxDayArg   == 32    \* day arguments up to MaxDayArg
MaxHour     == 24    \* hour arguments up to MaxHour
MaxMinSec   == 60    \* minute and second arguments up to MaxMinSec

YearArgs  == 0..MaxYear
\* year arguments far from both ranges, up to the largest uint16_t
WideYearArgs == {255, 256, 1999, 2255, 2256, 65535}
MonthArgs == 0..MaxMonth
DayArgs   == {0, 1} \cup (27..MaxDayArg)
\* <<hour, minute, second>>: the ends of each range, a mid value, and
\* values beyond each range
TimeArgs  == {<<0, 0, 0>>, <<23, 59, 59>>, <<12, 34, 56>>}
             \cup {<<h, 0, 0>> : h \in 24..MaxHour}
             \cup {<<0, x, 0>> : x \in 60..MaxMinSec}
             \cup {<<0, 0, x>> : x \in 60..MaxMinSec}
OobBytes  == {0, 31, 255}

MaxCmpDay   == 2     \* operands of the comparisons have days 1..MaxCmpDay
CmpArgs == {DateTimeYMD(y, m, d, h, mi, sc) :
              y \in {2000, 2001, 2099}, m \in {1, 12}, d \in 1..MaxCmpDay,
              h \in {0, 23}, mi \in {0, 59}, sc \in {0, 59}}

MaxSpanDay  == 1     \* TimeSpans of -MaxSpanDay..MaxSpanDay days, and the
                     \* day counts next to the ends of int32_t and int16_t
SpanDayArgs  == (-MaxSpanDay..MaxSpanDay)
                \cup {-32768, -24856, -24855, 24855, 24856, 32767}
SpanHourArgs == {-128, 0, 2, 127}
SpanMinArgs  == {-128, 0, 1, 3, 127}
SpanSecArgs  == {-128, 0, 4, 127}
SpanSecondsArgs == {0, 1, -1, 59, 60, 3599, 3600, 86399, 86400, 90061,
                    -90061, 2147483647, -2147483647, -2147483647 - 1}
SpanDayNos   == {0, 60, 24855, 36524}

MaxFormatDayNo == 366   \* formatted DateTimes: the days 0..MaxFormatDayNo
                        \* after 2000-01-01, 2020-04-16, 2020-06-25 and
                        \* 2099-12-31
FormatDayNos == (0..MaxFormatDayNo) \cup {7411, 7481, 36524}
                \cup {365 * k + 200 : k \in 0..99}   \* a day of each year
\* 00:00:00, 23:59:59, 18:34:56, 12:34:56, 01:02:03, 09:36:07, 15:29:37
FormatSecs   == {0, 86399, 66896, 45296, 3723, 34567, 55777}
FormatYMDhms == <<"Y", "Y", "Y", "Y", "-", "M", "M", "-", "D", "D", " ", "h", "h", ":", "m", "m", ":", "s", "s">>
\* the example of the documentation of toString
FormatDoc    == <<"D", "D", "D", ",", " ", "D", "D", " ", "M", "M", "M", " ", "Y", "Y", "Y", "Y", " ", "h", "h", ":", "m", "m", ":", "s", "s">>
\* 12-hour formats
Format12h      == <<"h", "h", ":", "m", "m", ":", "s", "s", " ", "A", "P">>
Format12hLower == <<"a", "p", " ", "h", "h">>
\* a meridiem followed by one more letter, and a text without any specifier
FormatAPM      == <<"A", "P", "M">>
FormatApm      == <<"a", "p", "m">>
FormatPlain    == <<"H", "e", "l", "l", "o", ",", " ", "R", "T", "C">>
\* a meridiem directly followed by the month, and by the minute
FormatAPMM     == <<"A", "P", "M", "M">>
FormatApmm     == <<"a", "p", "m", "m">>
\* the empty string and a string of one character
FormatEmpty    == <<>>
FormatOne      == <<"h">>
\* the toString format of TIMESTAMP_FULL
FormatISO      == <<"Y", "Y", "Y", "Y", "-", "M", "M", "-", "D", "D", "T", "h", "h", ":", "m", "m", ":", "s", "s">>
Formats      == {FormatYMDhms, FormatDoc, Format12h, Format12hLower,
                 FormatAPM, FormatApm, FormatPlain, FormatISO,
                 FormatAPMM, FormatApmm, FormatEmpty, FormatOne}

\* __DATE__ and __TIME__ strings: "Mon DD YYYY" with the day padded by a
\* space (as the preprocessor does) or by a zero, and "hh:mm:ss"
MaxBuildDay == 31    \* days 1..MaxBuildDay in the date strings
BuildMonths == {<<month_names[3 * k + 1], month_names[3 * k + 2],
                  month_names[3 * k + 3]>> : k \in 0..11}
               \cup {<<"X", "y", "z">>}
\* values the uninitialised m may hold
IndeterminateMonths == {0, 6, 13}
BuildYears  == {1999, 2000, 2020, 2099, 2100}
BuildTimes  == {<<0, 0, 0>>, <<23, 59, 59>>, <<18, 34, 56>>, <<9, 5, 7>>}
DateString(mon, pad, day, yr) ==
    mon \o <<" ">>
        \o (IF day < 10 THEN <<pad, CharFromZero(day)>> ELSE DecimalDigits(day))
        \o <<" ">> \o DecimalDigits(yr)
TimeString(hms) ==
    Pad2(hms[1]) \o <<":">> \o Pad2(hms[2]) \o <<":">> \o Pad2(hms[3])

MaxIsoExtra == 2     \* ISO strings of up to 19 + MaxIsoExtra chars
\* the lengths of the strings given to DateTime(const char *)
IsoLengths == 0..(Len(IsoRef) + MaxIsoExtra)
\* what follows the seconds in a longer string
IsoTail(n) == [k \in 1..n |-> "9"]
\* what a read outside the month_names table may return
OobChars     == {"?", NUL}

MaxDayNo  == 36524   \* DateTime(uint32_t) is given times up to this many
                     \* days after 2000-01-01 (36524 is 2099-12-31)
DayNos    == 0..MaxDayNo
SecsOfDay == {0, 86399}
\* the uint32_t  946684800 + n * 86400 + s
UnixOf(n, s) == U32(BigAdd(SECONDS_FROM_1970_TO_2000,
                           BigMulAdd(Big(n * 24), 3600, s)))

\* every uint32_t whose low 16 bits are all 0 or all 1, with the last
\* second before 2000-01-01 and the first one of it
AllSeconds == ((0..65535) \X {0, 65535})
              \cup {<<14445, 17279>>, SECONDS_FROM_1970_TO_2000}

NoCmp   == [lt |-> FALSE, eq |-> FALSE, gt |-> FALSE,
            le |-> FALSE, ge |-> FALSE, ne |-> FALSE]
NoParts == [days |-> 0, hours |-> 0, minutes |-> 0, seconds |-> 0]
NoArgs  == <<0, 0, 0, 0>>
NoScan == [i |-> 0, top |-> 0]
NoCodec == [bin |-> 0, bcd |-> 0, binOfBcd |-> 0, bcdOfBin |-> 0]
\* the values of a uint8_t
Bytes   == 0..255


Init ==
    /\ pc = "start"
    /\ made = "default"
    /\ a = DateTimeUnix(SECONDS_FROM_1970_TO_2000)
    /\ b = DateTimeUnix(SECONDS_FROM_1970_TO_2000)
    /\ flash = 0
    /\ ok = FALSE
    /\ t = SECONDS_FROM_1970_TO_2000
    /\ u = SECONDS_FROM_1970_TO_2000
    /\ dow = 0
    /\ cmp = NoCmp
    /\ span = 0
    /\ args = NoArgs
    /\ parts = NoParts
    /\ fmt = <<>>
    /\ buffer = <<>>
    /\ iso8601dateTime = <<>>
    /\ date = <<>>
    /\ time = <<>>
    /\ yearArg = 2000
    /\ scan = NoScan
    /\ regs = NoRegs
    /\ called = "none"
    /\ val = 0
    /\ codec = NoCodec

----------------------------------------------------------------------------
(* Operations.                                                             *)

\* DateTime a(year, month, day, hour, min, sec); the year is given as an
\* offset or as the full year
Construct ==
    /\ pc = "start"
    /\ \E yr \in YearArgs \cup {2000 + y : y \in YearArgs} \cup WideYearArgs,
          m \in MonthArgs, d \in DayArgs, hms \in TimeArgs :
         /\ yearArg' = yr
         /\ a' = DateTimeYMD(yr, m, d, hms[1], hms[2], hms[3])
         /\ \E g \in (IF m > 12 THEN OobBytes ELSE {0}) : flash' = g
    /\ pc' = "constructed"
    /\ made' = "components"
    /\ UNCHANGED <<b, ok, t, u, dow, cmp, span, args, parts, fmt, buffer,
                   iso8601dateTime, date, time, scan, chipVars>>

\* DateTime a(date, time); a month name without a case leaves m as it was
ConstructBuildTime ==
    /\ pc = "start"
    /\ \E mon \in BuildMonths, pad \in {" ", "0"}, day \in 1..MaxBuildDay,
          yr \in BuildYears, hms \in BuildTimes :
         /\ date' = DateString(mon, pad, day, yr)
         /\ time' = TimeString(hms)
         /\ \E mOld \in IndeterminateMonths :
              a' = DateTimeDateTime(date', time', mOld)
    /\ pc' = "constructed"
    /\ made' = "build time"
    /\ UNCHANGED <<b, flash, ok, t, u, dow, cmp, span, args, parts, fmt, buffer,
                   iso8601dateTime, yearArg, scan, chipVars>>

\* DateTime a(t), for t = 946684800 + n * 86400 + s
FromUnixIn(Ns, Ss) ==
    /\ pc = "start"
    /\ \E n \in Ns, s \in Ss :
         /\ t' = UnixOf(n, s)
         /\ a' = DateTimeUnix(t')
    /\ pc' = "constructed"
    /\ made' = "seconds"
    /\ UNCHANGED <<b, flash, ok, u, dow, cmp, span, args, parts, fmt, buffer,
                 textVars, chipVars>>

\* DateTime a(t) for a uint32_t t on either side of 2000-01-01
FromSeconds ==
    /\ pc = "start"
    /\ \E t0 \in AllSeconds :
         /\ t' = t0
         /\ a' = DateTimeUnix(t0)
    /\ pc' = "constructed"
    /\ made' = "seconds"
    /\ UNCHANGED <<b, flash, ok, u, dow, cmp, span, args, parts, fmt, buffer,
                   textVars, chipVars>>

\* u = a.unixtime()
Unixtime ==
    /\ pc = "constructed"
    /\ u' = unixtime(a)
    /\ pc' = "unixtime"
    /\ UNCHANGED <<made, a, b, flash, ok, t, dow, cmp, span, args, parts, fmt, buffer,
                 textVars, chipVars>>

\* u = a.secondstime()
Secondstime ==
    /\ pc = "constructed"
    /\ u' = secondstime(a)
    /\ pc' = "secondstime"
    /\ UNCHANGED <<made, a, b, flash, ok, t, dow, cmp, span, args, parts,
                   fmt, buffer, textVars, chipVars>>

\* ok = a.isValid(); b is the DateTime rebuilt from a.unixtime()
IsValid ==
    /\ pc = "constructed"
    /\ ok' = isValid(a)
    /\ b' = DateTimeUnix(unixtime(a))
    /\ pc' = "isValid"
    /\ UNCHANGED <<made, a, flash, t, u, dow, cmp, span, args, parts, fmt, buffer,
                 textVars, chipVars>>

\* dow = a.dayOfTheWeek()
DayOfTheWeek ==
    /\ pc = "constructed"
    /\ dow' = dayOfTheWeek(a)
    /\ pc' = "dayOfTheWeek"
    /\ UNCHANGED <<made, a, b, flash, ok, t, u, cmp, span, args, parts, fmt, buffer,
                 textVars, chipVars>>

\* DateTime a(...), b(...): two valid DateTimes
ConstructPair ==
    /\ pc = "start"
    /\ \E x \in CmpArgs, y \in CmpArgs : a' = x /\ b' = y
    /\ pc' = "pair"
    /\ made' = "components"
    /\ UNCHANGED <<flash, ok, t, u, dow, cmp, span, args, parts, fmt, buffer,
                 textVars, chipVars>>

\* a < b, a == b, a > b, a <= b, a >= b, a != b
Compare ==
    /\ pc = "pair"
    /\ cmp' = [lt |-> Less(a, b), eq |-> Equal(a, b), gt |-> Greater(a, b),
               le |-> LessEq(a, b), ge |-> GreaterEq(a, b),
               ne |-> NotEqual(a, b)]
    /\ pc' = "compare"
    /\ UNCHANGED <<made, a, b, flash, ok, t, u, dow, span, args, parts, fmt, buffer,
                 textVars, chipVars>>

\* TimeSpan span = a - b
Difference ==
    /\ pc = "pair"
    /\ span' = DateTimeDiff(a, b)
    /\ pc' = "difference"
    /\ UNCHANGED <<made, a, b, flash, ok, t, u, dow, cmp, args, parts, fmt, buffer,
                 textVars, chipVars>>

\* TimeSpan span(seconds)
SpanFromSeconds ==
    /\ pc \in {"start", "constructed"}
    /\ \E x \in SpanSecondsArgs : span' = TimeSpanSeconds(x)
    /\ pc' = "timespan"
    /\ UNCHANGED <<made, a, b, flash, ok, t, u, dow, cmp, args, parts, fmt, buffer,
                 textVars, chipVars>>

\* TimeSpan span(days, hours, minutes, seconds)
SpanFromParts ==
    /\ pc \in {"start", "constructed"}
    /\ \E ds \in SpanDayArgs, h \in SpanHourArgs, m \in SpanMinArgs,
          s \in SpanSecArgs :
         /\ args' = <<ds, h, m, s>>
         /\ span' \in TimeSpanParts(ds, h, m, s)
    /\ pc' = "timespan4"
    /\ UNCHANGED <<made, a, b, flash, ok, t, u, dow, cmp, parts, fmt, buffer,
                 textVars, chipVars>>

\* span.days(), span.hours(), span.minutes(), span.seconds()
Parts ==
    /\ pc \in {"timespan", "timespan4"}
    /\ parts' = [days |-> days(span), hours |-> hours(span),
                 minutes |-> minutes(span), seconds |-> seconds(span)]
    /\ pc' = "parts"
    /\ UNCHANGED <<made, a, b, flash, ok, t, u, dow, cmp, span, args, fmt, buffer,
                 textVars, chipVars>>

\* DateTime b = a + span
PlusSpan ==
    /\ pc \in {"timespan", "timespan4"}
    /\ b' = DateTimePlus(a, totalseconds(span))
    /\ pc' = "plus"
    /\ UNCHANGED <<made, a, flash, ok, t, u, dow, cmp, span, args, parts, fmt, buffer,
                 textVars, chipVars>>

\* DateTime b = a - span
MinusSpan ==
    /\ pc \in {"timespan", "timespan4"}
    /\ b' = DateTimeMinus(a, totalseconds(span))
    /\ pc' = "minus"
    /\ UNCHANGED <<made, a, flash, ok, t, u, dow, cmp, span, args, parts, fmt, buffer,
                 textVars, chipVars>>

\* a.toString(buffer), the buffer holding a format string
FormatBuffer ==
    /\ pc = "constructed"
    /\ \E f \in Formats :
         /\ fmt' = f
         /\ \E junk \in (IF a.m \in 1..12 /\ strlen(f) > 0
                        THEN {NUL} ELSE OobChars) :
              \E r \in {toStringScan(a, f, junk)} :
                /\ buffer' = r.buffer
                /\ scan' = [i |-> r.i, top |-> r.top]
    /\ pc' = "toString"
    /\ UNCHANGED <<made, a, b, flash, ok, t, u, dow, cmp, span, args, parts,
                   iso8601dateTime, date, time, yearArg, chipVars>>

\* buffer = a.timestamp(opt)
Timestamp ==
    /\ pc = "constructed"
    /\ \E opt \in timestampOpt :
         /\ fmt' = <<opt>>
         /\ buffer' = timestamp(a, opt)
    /\ pc' = "timestamp"
    /\ UNCHANGED <<made, a, b, flash, ok, t, u, dow, cmp, span, args, parts,
                   textVars, chipVars>>

\* DateTime b(iso8601dateTime), the string being the text timestamp
\* produced, or the text toString produced, cut short or continued
ParseISO ==
    /\ \/ pc = "toString" /\ fmt = FormatISO
       \/ pc = "timestamp"
    /\ \E n \in IsoLengths :
         /\ pc = "timestamp" => n = Len(buffer)
         /\ iso8601dateTime' =
              (IF n <= Len(buffer) THEN SubSeq(buffer, 1, n)
               ELSE buffer \o IsoTail(n - Len(buffer)))
         /\ b' = DateTimeISO(iso8601dateTime')
    /\ pc' = "parsed"
    /\ UNCHANGED <<made, a, flash, ok, t, u, dow, cmp, span, args, parts,
                   fmt, buffer, date, time, yearArg, scan, chipVars>>

\* begin(): the driver is attached to a chip whose Stop Enable register
\* holds some byte of Ss
BeginWith(Ss) ==
    /\ pc = "start"
    /\ \E v \in Ss : regs' = [regs EXCEPT ![PCF85263_STOPEN] = v]
    /\ pc' = "begun"
    /\ UNCHANGED <<made, a, b, flash, ok, t, u, dow, cmp, span, args, parts,
                   fmt, buffer, textVars, called, val, codec>>

\* rtc.start()
Start ==
    /\ pc \in {"begun", "ran"}
    /\ regs' = start(regs)
    /\ called' = "start"
    /\ pc' = "ran"
    /\ UNCHANGED <<made, a, b, flash, ok, t, u, dow, cmp, span, args, parts,
                   fmt, buffer, textVars, val, codec>>

\* rtc.stop()
Stop ==
    /\ pc \in {"begun", "ran"}
    /\ regs' = stop(regs)
    /\ called' = "stop"
    /\ pc' = "ran"
    /\ UNCHANGED <<made, a, b, flash, ok, t, u, dow, cmp, span, args, parts,
                   fmt, buffer, textVars, val, codec>>

\* rtc.adjust(a), for a DateTime a of the given days and times of day
Adjust ==
    /\ pc = "begun"
    /\ \E n \in FormatDayNos, sc \in FormatSecs :
         /\ a' = DateTimeUnix(UnixOf(n, sc))
         /\ regs' = adjust(regs, a')
    /\ pc' = "adjusted"
    /\ UNCHANGED <<made, b, flash, ok, t, u, dow, cmp, span, args, parts,
                   fmt, buffer, textVars, called, val, codec>>

\* DateTime b = rtc.now()
Now ==
    /\ pc \in {"begun", "adjusted"}
    /\ b' = now(regs)
    /\ pc' = "now"
    /\ UNCHANGED <<made, a, flash, ok, t, u, dow, cmp, span, args, parts,
                   fmt, buffer, textVars, chipVars>>

\* rtc.setAlarm(a): on a chip whose clock was not set, for a DateTime a of
\* the given days and times of day; after adjust, for
\* a = rtc.now() + TimeSpan(0, 0, 1, 0)
SetAlarm ==
    /\ pc \in {"begun", "adjusted"}
    /\ \E dt \in (IF pc = "begun"
                  THEN {DateTimeUnix(UnixOf(n, sc)) :
                          n \in FormatDayNos, sc \in FormatSecs}
                  ELSE {DateTimePlus(now(regs), sp) :
                          sp \in TimeSpanParts(0, 0, 1, 0)}) :
         /\ a' = dt
         /\ regs' = setAlarm(regs, dt)
    /\ pc' = "setAlarm"
    /\ UNCHANGED <<made, b, flash, ok, t, u, dow, cmp, span, args, parts,
                   fmt, buffer, textVars, called, val, codec>>

\* DateTime b = rtc.getAlarm()
GetAlarm ==
    /\ pc \in {"begun", "setAlarm"}
    /\ b' = getAlarm(regs)
    /\ pc' = "getAlarm"
    /\ UNCHANGED <<made, a, flash, ok, t, u, dow, cmp, span, args, parts,
                   fmt, buffer, textVars, chipVars>>

\* bcd2bin(val) and bin2bcd(val)
Convert ==
    /\ pc = "start"
    /\ \E v \in Bytes :
         /\ val' = v
         /\ codec' = [codec EXCEPT !.bin = bcd2bin(v), !.bcd = bin2bcd(v)]
    /\ pc' = "converted"
    /\ UNCHANGED <<made, a, b, flash, ok, t, u, dow, cmp, span, args, parts,
                   fmt, buffer, textVars, regs, called>>

\* bcd2bin(bin2bcd(val)) and bin2bcd(bcd2bin(val))
ConvertBack ==
    /\ pc = "converted"
    /\ codec' = [codec EXCEPT !.binOfBcd = bcd2bin(codec.bcd),
                              !.bcdOfBin = bin2bcd(codec.bin)]
    /\ pc' = "converted back"
    /\ UNCHANGED <<made, a, b, flash, ok, t, u, dow, cmp, span, args, parts,
                   fmt, buffer, textVars, regs, called, val>>

----------------------------------------------------------------------------
(* Specifications.                                                         *)

\* DateTimes built from components, then queried
Next == Construct \/ IsValid
Spec == Init /\ [][Next]_vars

\* DateTimes built from seconds since 1970, then queried
NextUnix == \/ FromUnixIn(DayNos, SecsOfDay)
            \/ IsValid \/ Unixtime \/ Secondstime \/ DayOfTheWeek
SpecUnix == Init /\ [][NextUnix]_vars

\* DateTime(uint32_t) over the whole range of uint32_t, and back
NextSeconds == FromSeconds \/ Unixtime
SpecSeconds == Init /\ [][NextSeconds]_vars

\* pairs of valid DateTimes, compared and subtracted
NextPair == ConstructPair \/ Compare \/ Difference
SpecPair == Init /\ [][NextPair]_vars

\* TimeSpans, their accessors, and DateTime +/- TimeSpan
NextSpan == \/ FromUnixIn(SpanDayNos, SecsOfDay)
            \/ SpanFromSeconds \/ SpanFromParts
            \/ Parts \/ PlusSpan \/ MinusSpan
SpecSpan == Init /\ [][NextSpan]_vars

\* DateTimes built from the build-time strings
NextBuild == ConstructBuildTime \/ IsValid
SpecBuild == Init /\ [][NextBuild]_vars

\* start() and stop() on a chip whose Stop Enable register holds any byte
NextStop == BeginWith(Bytes) \/ Start \/ Stop
SpecStop == Init /\ [][NextStop]_vars

\* the clock set by adjust() and read by now()
NextClock == BeginWith({0, 1}) \/ Adjust \/ Now
SpecClock == Init /\ [][NextClock]_vars

\* alarm 1 set and read back, on a chip whose clock is set or not
NextAlarm == BeginWith({0, 1}) \/ Adjust \/ SetAlarm \/ GetAlarm
SpecAlarm == Init /\ [][NextAlarm]_vars

\* the BCD codec on every byte
NextCodec == Convert \/ ConvertBack
SpecCodec == Init /\ [][NextCodec]_vars

\* DateTimes formatted by toString
NextFormat == \/ FromUnixIn(FormatDayNos, FormatSecs)
              \/ FormatBuffer \/ Timestamp \/ ParseISO
SpecFormat == Init /\ [][NextFormat]_vars

----------------------------------------------------------------------------
(* Reference calendar used to state the properties.                        *)

MonthLength(y, m) ==
    IF m = 2 THEN (IF y % 4 = 0 THEN 29 ELSE 28)
    ELSE IF m \in {4, 6, 9, 11} THEN 30 ELSE 31

\* the six fields are a real calendar timestamp of 2000..2099
CalendarValid(dt) ==
    /\ dt.yOff \in 0..99
    /\ dt.m \in 1..12
    /\ dt.d \in 1..MonthLength(dt.yOff, dt.m)
    /\ dt.hh \in 0..23
    /\ dt.mm \in 0..59
    /\ dt.ss \in 0..59

\* 4102444799 = 2099-12-31 23:59:59
LastSecond == <<62598, 22271>>
InWindow(x) == BigLe(SECONDS_FROM_1970_TO_2000, x) /\ BigLe(x, LastSecond)

\* whole days from 2000-01-01 to the uint32_t time x >= 946684800
DaysSince2000(x) ==
    U32DivMod(BigSub(x, SECONDS_FROM_1970_TO_2000), 60)[1] \div 1440

\* Zeller's congruence for the Gregorian calendar, 0 = Sunday .. 6 = Saturday
Weekday(y, m, d) ==
    LET mz == IF m < 3 THEN m + 12 ELSE m
        yz == IF m < 3 THEN y - 1 ELSE y
        K  == yz % 100
        J  == yz \div 100
        h  == (d + ((13 * (mz + 1)) \div 5) + K + (K \div 4) + (J \div 4) + 5 * J) % 7
    IN  (h + 6) % 7

----------------------------------------------------------------------------
(* C1: every calendar-valid DateTime built from components (year 2000..2099,*)
(* month 1..12, day 1..length of the month with 29 February exactly when   *)
(* (year - 2000) % 4 = 0, hour 0..23, minute 0..59, second 0..59) is       *)
(* reported valid by isValid(), and the DateTime rebuilt from its          *)
(* unixtime() has the same six fields.                                     *)
C1_ValidRoundTrip ==
    (pc = "isValid" /\ made = "components" /\ CalendarValid(a))
        => (ok /\ b = a)

C1_Witness ==
    /\ pc = "isValid" /\ made = "components" /\ CalendarValid(a)
    /\ a.yOff = 96 /\ a.m = 2 /\ a.d = 29 /\ a.hh = 23 /\ a.mm = 59 /\ a.ss = 59
    /\ ok /\ b = a

(* C2: a DateTime built from components that are not a real calendar       *)
(* timestamp (month 0 or > 12, day 0 or beyond the month's length, hour >= *)
(* 24, minute >= 60, second >= 60, year offset >= 100) is reported invalid *)
(* by isValid().                                                           *)
C2_InvalidRejected ==
    (pc = "isValid" /\ made = "components" /\ ~CalendarValid(a)) => ~ok

C2_Witness ==
    /\ pc = "isValid" /\ made = "components"
    /\ a = [yOff |-> 0, m |-> 2, d |-> 30, hh |-> 0, mm |-> 0, ss |-> 0]
    /\ ~ok

(* C3: unixtime() is the converse of the constructor from seconds: for     *)
(* every t in 946684800..4102444799, DateTime(t) is valid and              *)
(* DateTime(t).unixtime() = t; DateTime(946684800) is 2000-01-01 00:00:00, *)
(* whose unixtime() is 946684800.                                          *)
C3_UnixConverse ==
    (made = "seconds" /\ InWindow(t)) =>
        /\ CalendarValid(a)
        /\ pc = "isValid" => ok
        /\ pc = "unixtime" => u = t
        /\ t = SECONDS_FROM_1970_TO_2000 =>
              /\ a = DateTimeYMD(2000, 1, 1, 0, 0, 0)
              /\ unixtime(DateTimeYMD(2000, 1, 1, 0, 0, 0)) = t

C3_Witness ==
    /\ made = "seconds" /\ pc = "unixtime"
    /\ t = LastSecond /\ u = t
    /\ a = [yOff |-> 99, m |-> 12, d |-> 31, hh |-> 23, mm |-> 59, ss |-> 59]

(* C5: for every valid DateTime, dayOfTheWeek() is in 0..6, equals (whole  *)
(* days since 2000-01-01 + 6) mod 7, and is the true weekday with          *)
(* 0 = Sunday: 2000-01-01 gives 6 (Saturday), 2020-04-16 gives 4.          *)
C5_DayOfTheWeek ==
    (pc = "dayOfTheWeek" /\ made = "seconds" /\ InWindow(t)) =>
        /\ dow \in 0..6
        /\ dow = (DaysSince2000(t) + 6) % 7
        /\ dow = Weekday(2000 + a.yOff, a.m, a.d)
        /\ (a.yOff = 0 /\ a.m = 1 /\ a.d = 1) => dow = 6
        /\ (a.yOff = 20 /\ a.m = 4 /\ a.d = 16) => dow = 4

C5_Witness ==
    /\ pc = "dayOfTheWeek" /\ made = "seconds"
    /\ a.yOff = 20 /\ a.m = 4 /\ a.d = 16 /\ dow = 4

(* C4: for all valid DateTimes a and b exactly one of a<b, a==b, a>b holds *)
(* and it agrees with comparing a.unixtime() and b.unixtime() as integers; *)
(* a<=b iff not a>b, a>=b iff not a<b, a!=b iff not a==b.                  *)
C4_Ordering ==
    (pc = "compare" /\ CalendarValid(a) /\ CalendarValid(b)) =>
        /\ Cardinality({x \in {"lt", "eq", "gt"} : cmp[x]}) = 1
        /\ cmp.lt <=> BigLt(unixtime(a), unixtime(b))
        /\ cmp.eq <=> (unixtime(a) = unixtime(b))
        /\ cmp.gt <=> BigLt(unixtime(b), unixtime(a))
        /\ cmp.le <=> ~cmp.gt
        /\ cmp.ge <=> ~cmp.lt
        /\ cmp.ne <=> ~cmp.eq

C4_Witness ==
    /\ pc = "compare" /\ CalendarValid(a) /\ CalendarValid(b)
    /\ a.yOff = b.yOff /\ a.m = b.m /\ a.d < b.d /\ a.hh > b.hh
    /\ cmp.lt /\ ~cmp.eq /\ ~cmp.gt /\ cmp.le /\ ~cmp.ge /\ cmp.ne

(* C6: for every valid DateTime dt and every TimeSpan s, positive or       *)
(* negative, with dt.unixtime() + s.totalseconds() in                      *)
(* 946684800..4102444799, dt + s is valid and its unixtime() is that sum;  *)
(* likewise dt - s with the difference; 2000-01-01 00:00:00 plus one       *)
(* minute is 2000-01-01 00:01:00.                                          *)
C6_PlusMinusSpan ==
    /\ (pc = "plus" /\ CalendarValid(a)
          /\ InWindow(BigAdd(unixtime(a), Big(span)))) =>
            /\ CalendarValid(b) /\ isValid(b)
            /\ unixtime(b) = BigAdd(unixtime(a), Big(span))
    /\ (pc = "minus" /\ CalendarValid(a)
          /\ InWindow(BigSub(unixtime(a), Big(span)))) =>
            /\ CalendarValid(b) /\ isValid(b)
            /\ unixtime(b) = BigSub(unixtime(a), Big(span))
    /\ (pc = "plus" /\ a = DateTimeYMD(2000, 1, 1, 0, 0, 0) /\ span = 60) =>
            Equal(b, DateTimeYMD(2000, 1, 1, 0, 1, 0))

C6_Witness ==
    /\ pc = "minus" /\ made = "seconds" /\ CalendarValid(a)
    /\ a.yOff = 99 /\ a.m = 12 /\ a.d = 31 /\ span = 2147483647
    /\ InWindow(BigSub(unixtime(a), Big(span)))
    /\ b.yOff = 31

(* C7: for all valid DateTimes a and b with b earlier than or equal to a,  *)
(* (a - b).totalseconds() equals a.unixtime() - b.unixtime(), a            *)
(* non-negative number of seconds, for every such pair of 2000..2099.      *)
C7_DifferenceExact ==
    (pc = "difference" /\ CalendarValid(a) /\ CalendarValid(b)
       /\ BigLe(unixtime(b), unixtime(a))) =>
        /\ Big(totalseconds(span)) = BigSub(unixtime(a), unixtime(b))
        /\ totalseconds(span) >= 0

\* days * 86400 + hours * 3600 + minutes * 60 + seconds as
\* <<whole days, seconds of the day>>
DaysAndSeconds(x) ==
    LET rest == x[2] * 3600 + x[3] * 60 + x[4]
    IN  <<x[1] + (rest \div 86400), rest % 86400>>
\* 2^31 = 24855 * 86400 + 11648
InInt32(ds) ==
    /\ ds[1] < 24855 \/ (ds[1] = 24855 /\ ds[2] <= 11647)
    /\ ds[1] > -24856 \/ (ds[1] = -24856 /\ ds[2] >= 74752)

(* C8 as stated: for every argument tuple of the four-argument TimeSpan    *)
(* constructor (int16_t days, int8_t hours, minutes, seconds),             *)
(* totalseconds() = days*86400 + hours*3600 + minutes*60 + seconds.        *)
C8_AnyTuple ==
    pc = "timespan4" =>
        <<totalseconds(span) \div 86400, totalseconds(span) % 86400>>
            = DaysAndSeconds(args)

(* C8, amended: for every argument tuple of the four-argument TimeSpan     *)
(* constructor whose sum days*86400 + hours*3600 + minutes*60 + seconds    *)
(* lies in the int32_t range, totalseconds() is that sum;                  *)
(* TimeSpan(1,2,3,4).totalseconds() = 93784.                               *)
C8_TotalSeconds ==
    (pc = "timespan4" /\ InInt32(DaysAndSeconds(args))) =>
        /\ <<totalseconds(span) \div 86400, totalseconds(span) % 86400>>
              = DaysAndSeconds(args)
        /\ args = <<1, 2, 3, 4>> => totalseconds(span) = 93784

C8_Witness ==
    /\ pc = "timespan4" /\ args = <<-1, 2, -128, 127>>
    /\ totalseconds(span) = -86753

(* C9: for every TimeSpan total T of the int32_t range the accessors are   *)
(* place-value digits of T: days()*86400 + hours()*3600 + minutes()*60 +   *)
(* seconds() = T, and for T >= 0 days() = T div 86400, hours() is in       *)
(* 0..23, minutes() and seconds() are in 0..59; TimeSpan(90061) gives      *)
(* 1 day, 1 hour, 1 minute, 1 second.                                      *)
C9_PlaceValues ==
    pc = "parts" =>
        /\ span - parts.days * 86400
              = parts.hours * 3600 + parts.minutes * 60 + parts.seconds
        /\ span >= 0 =>
              /\ parts.days = span \div 86400
              /\ parts.hours \in 0..23
              /\ parts.minutes \in 0..59
              /\ parts.seconds \in 0..59
        /\ span = 90061 =>
              parts = [days |-> 1, hours |-> 1, minutes |-> 1, seconds |-> 1]

C9_Witness ==
    /\ pc = "parts" /\ span = -90061
    /\ parts = [days |-> -1, hours |-> -1, minutes |-> -1, seconds |-> -1]

\* the value of a decimal digit char, -1 for any other char
DigitValue(ch) ==
    IF \E k \in 0..9 : CharsFromZero[k + 1] = ch
    THEN CHOOSE k \in 0..9 : CharsFromZero[k + 1] = ch
    ELSE -1
\* the number the decimal digits buf[from..to] spell, -1 if one is no digit
RECURSIVE Decimal(_, _, _)
Decimal(buf, from, to) ==
    IF from > to THEN 0
    ELSE LET hd == Decimal(buf, from, to - 1)
             dv == DigitValue(buf[to])
         IN  IF hd < 0 \/ dv < 0 THEN -1 ELSE 10 * hd + dv

(* C10: for every valid DateTime, toString on a buffer holding             *)
(* "YYYY-MM-DD hh:mm:ss" writes the 4-digit year and the zero-padded       *)
(* 2-digit month, day, 24-hour hour, minute and second at the positions of *)
(* their tokens and keeps the separators; 2020-04-16 18:34:56 gives        *)
(* "2020-04-16 18:34:56".                                                  *)
C10_FormatYMDhms ==
    (pc = "toString" /\ fmt = FormatYMDhms /\ CalendarValid(a)) =>
        /\ Len(buffer) = 19
        /\ Decimal(buffer, 1, 4) = 2000 + a.yOff
        /\ Decimal(buffer, 6, 7) = a.m
        /\ Decimal(buffer, 9, 10) = a.d
        /\ Decimal(buffer, 12, 13) = a.hh
        /\ Decimal(buffer, 15, 16) = a.mm
        /\ Decimal(buffer, 18, 19) = a.ss
        /\ \A k \in {5, 8, 11, 14, 17} : buffer[k] = fmt[k]
        /\ a = DateTimeYMD(2020, 4, 16, 18, 34, 56) =>
              buffer = <<"2", "0", "2", "0", "-", "0", "4", "-", "1", "6", " ", "1", "8", ":", "3", "4", ":", "5", "6">>

C10_Witness ==
    /\ pc = "toString" /\ fmt = FormatYMDhms
    /\ a = DateTimeYMD(2020, 4, 16, 18, 34, 56)
    /\ buffer = <<"2", "0", "2", "0", "-", "0", "4", "-", "1", "6", " ", "1", "8", ":", "3", "4", ":", "5", "6">>


\* the English abbreviations, Sunday first and January first
WeekdayNames == << <<"S", "u", "n">>, <<"M", "o", "n">>, <<"T", "u", "e">>,
                   <<"W", "e", "d">>, <<"T", "h", "u">>, <<"F", "r", "i">>,
                   <<"S", "a", "t">> >>
MonthNames   == << <<"J", "a", "n">>, <<"F", "e", "b">>, <<"M", "a", "r">>,
                   <<"A", "p", "r">>, <<"M", "a", "y">>, <<"J", "u", "n">>,
                   <<"J", "u", "l">>, <<"A", "u", "g">>, <<"S", "e", "p">>,
                   <<"O", "c", "t">>, <<"N", "o", "v">>, <<"D", "e", "c">> >>

(* C11: the longer token wins.  For every valid DateTime, toString on      *)
(* "DDD, DD MMM YYYY hh:mm:ss" puts the 3-letter weekday name (0 = Sunday)  *)
(* where DDD was, the 3-letter month name where MMM was and the 4-digit    *)
(* year where YYYY was, never the 2-digit rendering of the first two       *)
(* characters of the token, and the 2-digit day where DD was; 2020-04-16   *)
(* 18:34:56 gives "Thu, 16 Apr 2020 18:34:56".                             *)
C11_LongerTokenFirst ==
    (pc = "toString" /\ fmt = FormatDoc /\ CalendarValid(a)) =>
        /\ Len(buffer) = 25
        /\ SubSeq(buffer, 1, 3) =
               WeekdayNames[Weekday(2000 + a.yOff, a.m, a.d) + 1]
        /\ Decimal(buffer, 6, 7) = a.d
        /\ SubSeq(buffer, 9, 11) = MonthNames[a.m]
        /\ Decimal(buffer, 13, 16) = 2000 + a.yOff
        /\ Decimal(buffer, 18, 19) = a.hh
        /\ Decimal(buffer, 21, 22) = a.mm
        /\ Decimal(buffer, 24, 25) = a.ss
        /\ \A k \in {4, 5, 8, 12, 17, 20, 23} : buffer[k] = fmt[k]
        /\ a = DateTimeYMD(2020, 4, 16, 18, 34, 56) =>
              buffer = <<"T", "h", "u", ",", " ", "1", "6", " ", "A", "p", "r", " ", "2", "0", "2", "0", " ", "1", "8", ":", "3", "4", ":", "5", "6">>

C11_Witness ==
    /\ pc = "toString" /\ fmt = FormatDoc
    /\ a = DateTimeYMD(2020, 4, 16, 18, 34, 56)
    /\ SubSeq(buffer, 1, 3) = <<"T", "h", "u">>
    /\ SubSeq(buffer, 9, 11) = <<"A", "p", "r">>
    /\ SubSeq(buffer, 13, 16) = <<"2", "0", "2", "0">>


\* the format holds "AP" or "ap" somewhere
HasMeridiem(f) ==
    \E k \in 1..(Len(f) - 1) :
        SubSeq(f, k, k + 1) \in {<<"A", "P">>, <<"a", "p">>}

(* C12: for every valid DateTime, toString renders hh as the 12-hour hour  *)
(* 01..12 (hours 0 and 12 both as 12) exactly when the format holds "AP"   *)
(* or "ap", and then AP becomes AM or PM and ap becomes am or pm, PM iff   *)
(* hour >= 12: the rendered hour is twelveHour() and the meridiem is       *)
(* isPM(); without AP and ap, hh is rendered as the hour 00..23.           *)
C12_TwelveHour ==
    (pc = "toString" /\ CalendarValid(a)) =>
        LET hour12 == ((a.hh + 11) % 12) + 1
        IN  /\ twelveHour(a) = hour12
            /\ isPM(a) = (a.hh >= 12)
            /\ fmt = Format12h =>
                 /\ HasMeridiem(fmt)
                 /\ Decimal(buffer, 1, 2) = hour12
                 /\ SubSeq(buffer, 10, 11) =
                      (IF a.hh >= 12 THEN <<"P", "M">> ELSE <<"A", "M">>)
                 /\ Decimal(buffer, 4, 5) = a.mm
                 /\ Decimal(buffer, 7, 8) = a.ss
            /\ fmt = Format12hLower =>
                 /\ HasMeridiem(fmt)
                 /\ SubSeq(buffer, 1, 2) =
                      (IF a.hh >= 12 THEN <<"p", "m">> ELSE <<"a", "m">>)
                 /\ Decimal(buffer, 4, 5) = hour12
            /\ fmt = FormatYMDhms =>
                 ~HasMeridiem(fmt) /\ Decimal(buffer, 12, 13) = a.hh
            /\ fmt = FormatDoc =>
                 ~HasMeridiem(fmt) /\ Decimal(buffer, 18, 19) = a.hh

\* noon in 12-hour form: "12:34:56 PM"
C12_Witness ==
    /\ pc = "toString" /\ fmt = Format12h
    /\ a.hh = 12 /\ a.mm = 34 /\ a.ss = 56
    /\ buffer = <<"1", "2", ":", "3", "4", ":", "5", "6", " ", "P", "M">>


\* the specifiers of toString, and the length of the longest one that starts
\* at position k of the format f (0 if none does)
Specifiers == {<<"Y", "Y", "Y", "Y">>, <<"Y", "Y">>, <<"M", "M", "M">>,
               <<"M", "M">>, <<"D", "D", "D">>, <<"D", "D">>, <<"h", "h">>,
               <<"m", "m">>, <<"s", "s">>, <<"A", "P">>, <<"a", "p">>}
SpecifierLenAt(f, k) ==
    LET ns == {Len(sp) : sp \in {x \in Specifiers :
                   k + Len(x) - 1 <= Len(f) /\ SubSeq(f, k, k + Len(x) - 1) = x}}
    IN  IF ns = {} THEN 0 ELSE CHOOSE n \in ns : \A o \in ns : o <= n
\* the positions of f from k on that belong to a specifier, reading f from
\* the left
RECURSIVE SpecifierPositions(_, _)
SpecifierPositions(f, k) ==
    IF k > Len(f) THEN {}
    ELSE LET n == SpecifierLenAt(f, k)
         IN  IF n = 0 THEN SpecifierPositions(f, k + 1)
             ELSE (k..(k + n - 1)) \cup SpecifierPositions(f, k + n)

(* C13: toString keeps the length of the buffer (it writes no NUL and the  *)
(* terminating NUL stays in place) and every character of the format that  *)
(* belongs to no specifier (YYYY, YY, MMM, MM, DDD, DD, hh, mm, ss, AP,    *)
(* ap) is the same after the call; a format without specifiers comes back  *)
(* unchanged.  The model refutes it: in "APM" the M behind AP belongs to   *)
(* no specifier, yet it is overwritten.                                     *)
C13_NonSpecifiersKept ==
    (pc = "toString" /\ CalendarValid(a)) =>
        /\ Len(buffer) = Len(fmt)
        /\ \A k \in 1..Len(buffer) : buffer[k] # NUL
        /\ \A k \in (1..Len(fmt)) \ SpecifierPositions(fmt, 1) :
               buffer[k] = fmt[k]
        /\ SpecifierPositions(fmt, 1) = {} => buffer = fmt


(* C14: parsing inverts formatting.  For every valid DateTime a, the       *)
(* DateTime built from the 19 characters that toString writes for          *)
(* "YYYY-MM-DDThh:mm:ss", which are the characters of                      *)
(* timestamp(TIMESTAMP_FULL), equals a; "2020-06-25T15:29:37" parses to    *)
(* 2020-06-25 15:29:37.                                                    *)
C14_ParseInvertsFormat ==
    (/\ pc = "parsed" /\ CalendarValid(a)
     /\ fmt \in {FormatISO, <<"TIMESTAMP_FULL">>}
     /\ iso8601dateTime = buffer) =>
        /\ Len(iso8601dateTime) = 19
        /\ buffer = timestamp(a, "TIMESTAMP_FULL")
        /\ b = a
        /\ Equal(b, a)
        /\ iso8601dateTime = <<"2", "0", "2", "0", "-", "0", "6", "-", "2", "5", "T", "1", "5", ":", "2", "9", ":", "3", "7">> =>
              b = DateTimeYMD(2020, 6, 25, 15, 29, 37)

C14_Witness ==
    /\ pc = "parsed" /\ fmt = FormatISO
    /\ iso8601dateTime = <<"2", "0", "2", "0", "-", "0", "6", "-", "2", "5", "T", "1", "5", ":", "2", "9", ":", "3", "7">>
    /\ a = DateTimeYMD(2020, 6, 25, 15, 29, 37)
    /\ b = a


(* C19: an ISO-8601 string shorter than 19 characters overwrites only the  *)
(* first strlen characters of "2000-01-01T00:00:00", so a field that lies  *)
(* wholly behind the end of the string keeps the value of the reference    *)
(* (month 1, day 1, hour, minute, second 0) and a field wholly inside it   *)
(* is the one given; "2020-06-25" yields 2020-06-25 00:00:00.  A string    *)
(* longer than 19 characters is parsed from its first 19 characters.       *)
C19_ShortIsoKeepsReference ==
    (pc = "parsed" /\ fmt = FormatISO /\ CalendarValid(a)) =>
        LET n == Len(iso8601dateTime)
        IN  /\ n <= 2  => b.yOff = 0
            /\ n <= 5  => b.m = 1
            /\ n <= 8  => b.d = 1
            /\ n <= 11 => b.hh = 0
            /\ n <= 14 => b.mm = 0
            /\ n <= 17 => b.ss = 0
            /\ n >= 4  => b.yOff = a.yOff
            /\ n >= 7  => b.m = a.m
            /\ n >= 10 => b.d = a.d
            /\ n >= 13 => b.hh = a.hh
            /\ n >= 16 => b.mm = a.mm
            /\ n >= 19 => b = a
            /\ iso8601dateTime = <<"2", "0", "2", "0", "-", "0", "6", "-", "2", "5">> =>
                  b = DateTimeYMD(2020, 6, 25, 0, 0, 0)

C19_Witness ==
    /\ pc = "parsed" /\ fmt = FormatISO
    /\ a = DateTimeYMD(2020, 6, 25, 15, 29, 37)
    /\ iso8601dateTime = <<"2", "0", "2", "0", "-", "0", "6", "-", "2", "5">>
    /\ b = DateTimeYMD(2020, 6, 25, 0, 0, 0)


(* C15: for each of the twelve month abbreviations Jan..Dec, the DateTime  *)
(* built from "Mon DD YYYY" and "hh:mm:ss" has that month's number 1..12,  *)
(* the day DD (a space in place of the tens digit counting as zero), the   *)
(* last two digits of YYYY as year offset, and the given hour, minute and  *)
(* second; ("Apr 16 2020", "18:34:56") is DateTime(2020,4,16,18,34,56).    *)
C15_BuildTimeStrings ==
    (/\ pc = "constructed" /\ made = "build time"
     /\ \E k \in 1..12 : MonthNames[k] = SubSeq(date, 1, 3)) =>
        /\ MonthNames[a.m] = SubSeq(date, 1, 3)
        /\ a.d = (IF date[5] = " " THEN 0 ELSE 10 * DigitValue(date[5]))
                 + DigitValue(date[6])
        /\ a.yOff = Decimal(date, 8, 11) % 100
        /\ a.hh = Decimal(time, 1, 2)
        /\ a.mm = Decimal(time, 4, 5)
        /\ a.ss = Decimal(time, 7, 8)
        /\ (date = <<"A", "p", "r", " ", "1", "6", " ", "2", "0", "2", "0">> /\ time = <<"1", "8", ":", "3", "4", ":", "5", "6">>) =>
              a = DateTimeYMD(2020, 4, 16, 18, 34, 56)

C15_Witness ==
    /\ pc = "constructed" /\ made = "build time"
    /\ date = <<"J", "u", "l", " ", " ", "4", " ", "2", "0", "9", "9">>
    /\ time = <<"0", "9", ":", "0", "5", ":", "0", "7">>
    /\ a = DateTimeYMD(2099, 7, 4, 9, 5, 7)


(* C16: for every v in 0..99, bin2bcd(v) is the byte with high nibble      *)
(* v div 10 and low nibble v mod 10, computed without exceeding 8 bits,    *)
(* and bcd2bin(bin2bcd(v)) = v; for every byte whose two nibbles are both  *)
(* at most 9, bcd2bin gives 10 * high + low and bin2bcd(bcd2bin(b)) = b.   *)
C16_BcdRoundTrip ==
    (pc = "converted back") =>
        /\ val \in 0..99 =>
             /\ val + 6 * (val \div 10) <= 255
             /\ codec.bcd \div 16 = val \div 10
             /\ codec.bcd % 16 = val % 10
             /\ codec.binOfBcd = val
        /\ (val \div 16 <= 9 /\ val % 16 <= 9) =>
             /\ codec.bin = 10 * (val \div 16) + (val % 16)
             /\ codec.bcdOfBin = val

\* 59 <-> 0x59 = 89:  bin2bcd(89) = 0x89 = 137 and bcd2bin(89) = 59
C16_Witness ==
    /\ pc = "converted back" /\ val = 89
    /\ codec = [bin |-> 59, bcd |-> 137, binOfBcd |-> 89, bcdOfBin |-> 89]


(* C17: after stop() bit 0 (STOP) of the Stop Enable register is 1 and     *)
(* after start() it is 0, whatever the register held before: after any     *)
(* sequence of start() and stop() the STOP bit is 1 iff the most recent    *)
(* call was stop().  The model refutes it: stop() on a register whose      *)
(* STOP bit is 0 writes stopen & 1, which is 0.                            *)
C17_StopBitFollowsLastCall ==
    (pc = "ran") =>
        ((regs[PCF85263_STOPEN] % 2 = 1) <=> (called = "stop"))


\* the byte whose nibbles are the two decimal digits of v < 100
PackedDecimal(v) == 16 * (v \div 10) + (v % 10)
\* the time registers hold the seven bytes of the DateTime dt: BCD second,
\* minute, hour, day, a zero weekday, month and year offset
HoldsTimeOf(rg, dt) ==
    /\ rg[PCF85263_SECOND] = PackedDecimal(dt.ss)
    /\ rg[PCF85263_MINUTE] = PackedDecimal(dt.mm)
    /\ rg[PCF85263_HOUR] = PackedDecimal(dt.hh)
    /\ rg[PCF85263_DAY] = PackedDecimal(dt.d)
    /\ rg[PCF85263_WEEKDAY] = 0
    /\ rg[PCF85263_MONTH] = PackedDecimal(dt.m)
    /\ rg[PCF85263_YEAR] = PackedDecimal(dt.yOff)

(* C18: register round trip of the clock.  For every valid DateTime a,     *)
(* adjust(a) leaves in the registers from the seconds register on the BCD  *)
(* second, minute, hour, day, a zero weekday byte, month and year offset,  *)
(* and if the registers hold exactly these bytes now() returns a DateTime  *)
(* equal to a: the masks 0x7F (second, minute), 0x3F (hour, day) and 0x1F  *)
(* (month) remove no bit of a valid BCD field.                             *)
C18_AdjustNowRoundTrip ==
    /\ (pc = "adjusted" /\ CalendarValid(a)) => HoldsTimeOf(regs, a)
    /\ (pc = "now" /\ CalendarValid(a) /\ HoldsTimeOf(regs, a)) =>
          /\ b = a
          /\ Equal(b, a)
          /\ regs[PCF85263_SECOND] < 128 /\ regs[PCF85263_MINUTE] < 128
          /\ regs[PCF85263_HOUR] < 64 /\ regs[PCF85263_DAY] < 64
          /\ regs[PCF85263_MONTH] < 32

\* 2099-12-31 23:59:59 read back from 0x59 0x59 0x23 0x31 0x00 0x12 0x99
C18_Witness ==
    /\ pc = "now"
    /\ a = DateTimeYMD(2099, 12, 31, 23, 59, 59)
    /\ [k \in 1..7 |-> regs[k]] = <<89, 89, 35, 49, 0, 18, 153>>
    /\ b = a


\* the calendar date before the date of dt (year offset, month, day), a
\* year being leap iff its offset from 2000 is divisible by 4
PrecedingDate(dt) ==
    IF dt.d > 1 THEN [yOff |-> dt.yOff, m |-> dt.m, d |-> dt.d - 1]
    ELSE IF dt.m > 1
    THEN [yOff |-> dt.yOff, m |-> dt.m - 1,
          d |-> MonthLength(dt.yOff, dt.m - 1)]
    ELSE [yOff |-> dt.yOff - 1, m |-> 12, d |-> 31]

(* C20: within 2000-01-01..2099-12-31 the day count of a date, date2days,  *)
(* which is secondstime() div 86400, is 0 for 2000-01-01 and one more than *)
(* the day count of the preceding calendar date, across month ends, across *)
(* 28/29 February and across year ends.                                    *)
C20_DayCountConsecutive ==
    (pc = "secondstime" /\ CalendarValid(a)) =>
        LET n == U32DivMod(u, 60)[1] \div 1440
            p == PrecedingDate(a)
        IN  /\ n = date2days(a.yOff, a.m, a.d)
            /\ n = date2days(2000 + a.yOff, a.m, a.d)
            /\ n = DaysSince2000(t)
            /\ (a.yOff = 0 /\ a.m = 1 /\ a.d = 1) => n = 0
            /\ ~(a.yOff = 0 /\ a.m = 1 /\ a.d = 1) =>
                  n = date2days(p.yOff, p.m, p.d) + 1

\* 2004-03-01, the day after 29 February 2004, is day 1521
C20_Witness ==
    /\ pc = "secondstime"
    /\ a.yOff = 4 /\ a.m = 3 /\ a.d = 1
    /\ PrecedingDate(a) = [yOff |-> 4, m |-> 2, d |-> 29]
    /\ U32DivMod(u, 60)[1] \div 1440 = 1521


(* C21: a DateTime built from components with a year argument outside both *)
(* 0..99 and 2000..2099 (100, 1999, 2100, 2256, ...) is never valid:       *)
(* isValid() returns false whatever the other fields are.  The model       *)
(* refutes it: the year minus 2000 is cut to 8 bits, so 2256 is stored as  *)
(* year offset 0.                                                          *)
C21_YearOutsideInvalid ==
    (/\ pc = "isValid" /\ made = "components"
     /\ yearArg \notin 0..99 /\ yearArg \notin 2000..2099) => ~ok


\* two decimal digits of n < 100
TwoDecimals(n) == <<CharsFromZero[(n \div 10) + 1], CharsFromZero[(n % 10) + 1]>>
\* the value of the specifier sp for the valid DateTime dt, in 12-hour form
\* if twelve
SpecifierValue(sp, dt, twelve) ==
    IF sp = <<"Y", "Y", "Y", "Y">> THEN <<"2", "0">> \o TwoDecimals(dt.yOff)
    ELSE IF sp = <<"Y", "Y">> THEN TwoDecimals(dt.yOff)
    ELSE IF sp = <<"M", "M", "M">> THEN MonthNames[dt.m]
    ELSE IF sp = <<"M", "M">> THEN TwoDecimals(dt.m)
    ELSE IF sp = <<"D", "D", "D">>
    THEN WeekdayNames[Weekday(2000 + dt.yOff, dt.m, dt.d) + 1]
    ELSE IF sp = <<"D", "D">> THEN TwoDecimals(dt.d)
    ELSE IF sp = <<"h", "h">>
    THEN TwoDecimals(IF twelve THEN ((dt.hh + 11) % 12) + 1 ELSE dt.hh)
    ELSE IF sp = <<"m", "m">> THEN TwoDecimals(dt.mm)
    ELSE IF sp = <<"s", "s">> THEN TwoDecimals(dt.ss)
    ELSE IF sp = <<"A", "P">>
    THEN (IF dt.hh >= 12 THEN <<"P", "M">> ELSE <<"A", "M">>)
    ELSE (IF dt.hh >= 12 THEN <<"p", "m">> ELSE <<"a", "m">>)
\* the format f from position k on with each specifier, found reading f
\* from the left, replaced by its own value
RECURSIVE Rendered(_, _, _)
Rendered(f, k, dt) ==
    IF k > Len(f) THEN <<>>
    ELSE LET n == SpecifierLenAt(f, k)
         IN  IF n = 0 THEN <<f[k]>> \o Rendered(f, k + 1, dt)
             ELSE SpecifierValue(SubSeq(f, k, k + n - 1), dt, HasMeridiem(f))
                  \o Rendered(f, k + n, dt)

(* C22: what toString writes for one specifier is never read again as part *)
(* of another specifier: every specifier of the format is replaced by its  *)
(* own value whatever stands next to it; "APMM" gives the meridiem and the *)
(* 2-digit month, "apmm" the meridiem and the 2-digit minute.  The model   *)
(* refutes it: the M (m) written for the meridiem is read again with the   *)
(* characters behind it.                                                   *)
C22_SpecifiersIndependent ==
    (pc = "toString" /\ CalendarValid(a)) =>
        /\ buffer = Rendered(fmt, 1, a)
        /\ fmt = FormatAPMM =>
             /\ SubSeq(buffer, 1, 2) \in {<<"A", "M">>, <<"P", "M">>}
             /\ Decimal(buffer, 3, 4) = a.m
        /\ fmt = FormatApmm =>
             /\ SubSeq(buffer, 1, 2) \in {<<"a", "m">>, <<"p", "m">>}
             /\ Decimal(buffer, 3, 4) = a.mm


(* C23: toString ends, and reads and writes only the positions             *)
(* 0..strlen(buffer) of its buffer, whatever NUL-terminated string the     *)
(* buffer holds; the empty string and a string of one character come back  *)
(* unchanged.  The model refutes it for the empty string: the loop does    *)
(* not end at the terminating NUL and reads the positions behind it.       *)
C23_ScanStaysInBuffer ==
    (pc = "toString" /\ CalendarValid(a)) =>
        /\ scan.i <= Len(fmt)
        /\ scan.top <= Len(fmt)
        /\ Len(buffer) = Len(fmt)
        /\ Len(fmt) <= 1 => buffer = fmt


\* the days from 2000-01-01 to the 1st of January yOff years later, one
\* year in four having 366 days
DaysBeforeYear(yOff) == 365 * yOff + (yOff + 3) \div 4
\* the whole days in t - 946684800 modulo 2^32
WrappedDays(t0) ==
    U32DivMod(U32(BigSub(t0, SECONDS_FROM_1970_TO_2000)), 60)[1] \div 1440

(* C24: for every uint32_t t, also for t < 946684800 where the             *)
(* subtraction of the epoch wraps modulo 2^32, DateTime(t) is constructed: *)
(* the year loop ends with the number of whole years in the days, which    *)
(* fits in 8 bits; the month is 1..12, the day 1..31, the hour 0..23, the  *)
(* minute and the second 0..59; and DateTime(t).unixtime() is t again.     *)
C24_EverySecondConstructs ==
    (pc = "unixtime" /\ made = "seconds") =>
        /\ a.yOff \in 0..255
        /\ DaysBeforeYear(a.yOff) <= WrappedDays(t)
        /\ WrappedDays(t) < DaysBeforeYear(a.yOff + 1)
        /\ a.m \in 1..12 /\ a.d \in 1..31
        /\ a.hh \in 0..23 /\ a.mm \in 0..59 /\ a.ss \in 0..59
        /\ u = t

\* DateTime(0): the subtraction wraps to 3348282496 seconds, 38753 days,
\* which the loops take for the 6th of February of year 106
C24_Witness ==
    /\ pc = "unixtime" /\ made = "seconds"
    /\ t = <<0, 0>>
    /\ BigLt(t, SECONDS_FROM_1970_TO_2000)
    /\ a = [yOff |-> 106, m |-> 2, d |-> 6, hh |-> 6, mm |-> 28, ss |-> 16]
    /\ u = t


\* the alarm-1 registers hold the five bytes of the DateTime dt: BCD
\* second, minute, hour, day and month
HoldsAlarmOf(rg, dt) ==
    /\ rg[PCF85263_ALM1_SECONDS] = PackedDecimal(dt.ss)
    /\ rg[PCF85263_ALM1_MINUTE] = PackedDecimal(dt.mm)
    /\ rg[PCF85263_ALM1_HOUR] = PackedDecimal(dt.hh)
    /\ rg[PCF85263_ALM1_DAY] = PackedDecimal(dt.d)
    /\ rg[PCF85263_ALM1_MONTH] = PackedDecimal(dt.m)

(* C25: register round trip of alarm 1.  For every valid DateTime a,       *)
(* setAlarm(a) leaves in the registers from the alarm-1 seconds register   *)
(* on the BCD second, minute, hour, day and month; if the registers hold   *)
(* exactly these bytes getAlarm() returns a DateTime with the month, day,  *)
(* hour, minute and second of a and the year 2000; and setAlarm changes no *)
(* register of the clock, from the seconds to the year register.           *)
C25_AlarmRoundTrip ==
    /\ []((pc = "setAlarm" /\ CalendarValid(a)) => HoldsAlarmOf(regs, a))
    /\ []((pc = "getAlarm" /\ CalendarValid(a) /\ HoldsAlarmOf(regs, a)) =>
            /\ b.m = a.m /\ b.d = a.d
            /\ b.hh = a.hh /\ b.mm = a.mm /\ b.ss = a.ss
            /\ b.yOff = 0 /\ year(b) = 2000)
    /\ [][pc' = "setAlarm" =>
            \A r \in PCF85263_SECOND..PCF85263_YEAR : regs'[r] = regs[r]]_vars

\* the clock set to 2020-06-25 15:29:37, the alarm to one minute later:
\* 0x37 0x30 0x15 0x25 0x06 behind 0x37 0x29 0x15 0x25 0x00 0x06 0x20
C25_Witness ==
    /\ pc = "getAlarm"
    /\ a = DateTimeYMD(2020, 6, 25, 15, 30, 37)
    /\ [k \in 1..12 |-> regs[k]] = <<55, 41, 21, 37, 0, 6, 32, 55, 48, 21, 37, 6>>
    /\ b = DateTimeYMD(2000, 6, 25, 15, 30, 37)

====
